---- MODULE Spec2Model ----
(***************************************************************************)
(* Model of monitor.py: the RAPL energy counter (RaplDomain), the start-up *)
(* sequence of main(), its sampling loop, the csv / jsonl emission and the *)
(* finally block.                                                          *)
(*                                                                         *)
(* Python values: an Optional is a sequence of length 0 (None) or 1.       *)
(* A float is an exact rational <<n, d>> in lowest terms with d > 0, so    *)
(* 0.5 is <<1, 2>>.  A dict is a sequence of <<key, value>> pairs in       *)
(* insertion order.  A text line is a sequence of tokens, the separator    *)
(* "," being a token of its own.                                           *)
(***************************************************************************)
EXTENDS Integers, Sequences, FiniteSets, TLC

\* ------------------------------------------------------------------ bounds
MaxCalls == 3
MaxTimestamp == 2
MaxTime == 5
MaxRecords == 3
MaxDuration == 2
MaxInterval == 2
NumDomains == 1

\* ------------------------------------------------------- Python primitives
None == <<>>
Some(x) == <<x>>

\* bool(x) of an Optional number: None and 0 are falsy
Truthy(opt) == opt # None /\ opt[1] # 0

Abs(n) == IF n < 0 THEN -n ELSE n

RECURSIVE GCD(_, _)
GCD(a, b) == IF b = 0 THEN a ELSE GCD(b, a % b)

\* the rational n / d in lowest terms, d # 0
Frac(n, d) ==
    LET g == GCD(Abs(n), Abs(d))
        s == IF d < 0 THEN -1 ELSE 1
    IN  <<(s * n) \div g, (s * d) \div g>>

\* q / k for a rational q and a number k # 0
FloatDiv(q, k) == Frac(q[1], q[2] * k)

\* ------------------------------------------------------------- RaplDomain
\* RaplDomain.__init__
NewRaplDomain(name) ==
    [name |-> name, last_energy_uj |-> None, last_timestamp |-> None]

\* sample_power_w with a missing baseline read as 0 on the first call
sample_power_w_zero_baseline(self, energy, now) ==
    IF energy = None
    THEN [ret |-> None, self |-> self]
    ELSE LET last_e == IF self.last_energy_uj = None THEN 0
                       ELSE self.last_energy_uj[1]
             last_t == IF self.last_timestamp = None THEN 0
                       ELSE self.last_timestamp[1]
             delta_t == now - last_t
             updated == [self EXCEPT !.last_energy_uj = energy,
                                     !.last_timestamp = Some(now)]
         IN  IF delta_t <= 0
             THEN [ret |-> None, self |-> updated]
             ELSE [ret |-> Some(FloatDiv(Frac(energy[1] - last_e, 1000000),
                                         delta_t)),
                   self |-> updated]

\* sample_power_w returning on delta_t <= 0 before it stores the reading
sample_power_w_early_return(self, energy, now) ==
    IF energy = None
    THEN [ret |-> None, self |-> self]
    ELSE IF self.last_energy_uj = None
    THEN [ret |-> None,
          self |-> [self EXCEPT !.last_energy_uj = energy,
                                !.last_timestamp = Some(now)]]
    ELSE LET delta_e == energy[1] - self.last_energy_uj[1]
             delta_t == IF Truthy(self.last_timestamp)
                        THEN now - self.last_timestamp[1]
                        ELSE 0
             updated == [self EXCEPT !.last_energy_uj = energy,
                                     !.last_timestamp = Some(now)]
         IN  IF delta_t <= 0
             THEN [ret |-> None, self |-> self]
             ELSE [ret |-> Some(FloatDiv(Frac(delta_e, 1000000), delta_t)),
                   self |-> updated]

\* RaplDomain.sample_power_w, with the result of read_energy_uj() and of
\* time.time() as parameters; yields the return value and the new object
sample_power_w(self, energy, now) ==
    IF energy = None
    THEN [ret |-> None, self |-> self]
    ELSE IF self.last_energy_uj = None
    THEN [ret |-> None,
          self |-> [self EXCEPT !.last_energy_uj = energy,
                                !.last_timestamp = Some(now)]]
    ELSE LET delta_e == energy[1] - self.last_energy_uj[1]
             delta_t == IF Truthy(self.last_timestamp)
                        THEN now - self.last_timestamp[1]
                        ELSE 0
             updated == [self EXCEPT !.last_energy_uj = energy,
                                     !.last_timestamp = Some(now)]
         IN  IF delta_t <= 0
             THEN [ret |-> None, self |-> updated]
             ELSE [ret |-> Some(FloatDiv(Frac(delta_e, 1000000), delta_t)),
                   self |-> updated]


\* ------------------------------------------------------------------ state
VARIABLES
    pc,              \* position of main()
    args,            \* parsed command line (immutable after Init)
    host,            \* the machine: its GPUs, whether cpu_freq() answers,
                     \* what time.time() returns when main() is entered
    NVML_AVAILABLE,  \* module global set by the pynvml import
    rapl_domains,    \* list of RaplDomain
    gpu_devices,     \* list of GpuDevice (their indexes)
    target_process,  \* Optional psutil.Process (its pid)
    popen,           \* Optional subprocess.Popen (its pid)
    start_time,
    file_handle,     \* None, or <<"open">> / <<"closed">>
    csv_writer,      \* csv_writer is not None
    keys_order,
    header_printed,
    ts,
    row,             \* the dict built by the current iteration
    line,            \* the text written by the current iteration
    clock,           \* time.time() of the environment
    proc_state,      \* the monitored process: "none", "alive", "zombie", "gone"
    nvml_state,      \* the vendor subsystem: "uninit", "init", "released"
    nvml_shutdowns,  \* successful nvmlShutdown() calls
    interrupts,      \* SIGINT signals delivered so far
    exit_status,     \* how main() ended
    error_log,       \* logger.error() calls
    ticks,           \* loop iterations started
    out_header,      \* header lines written, with the number of rows before
    out_count,       \* data lines written
    sleep_ok,        \* every sleep so far advanced the clock by >= interval
    poll_status,     \* popen.poll() has returned an exit status
    after_poll,      \* records written after poll first returned a status
    answers,         \* which queries of the current iteration answered
    ended,           \* a query on the monitored process has failed
    late_queries,    \* iterations that queried the process after that
    flagged,         \* records written that carry proc_ended
    stop_reason,     \* the break or handler that left the loop
    accessible,      \* names of the domains whose start-up read succeeded
    primed,          \* the calls of lines 288-289: read result and time,
                     \* kept until the first record is written
    counter,         \* a RaplDomain exercised on its own
    calls            \* the sample_power_w() calls made on counter

progVars == <<pc, args, host, NVML_AVAILABLE, rapl_domains, gpu_devices,
              target_process, popen, start_time, file_handle, csv_writer,
              keys_order, header_printed, ts, row, line>>
envVars == <<clock, proc_state, nvml_state, nvml_shutdowns, interrupts,
             exit_status, error_log, ticks, out_header, out_count, sleep_ok,
             poll_status, after_poll>>
obsVars == <<answers, ended, late_queries, flagged, stop_reason, accessible,
             primed>>
ctrVars == <<counter, calls>>
progVars_but_pc == <<args, host, NVML_AVAILABLE, rapl_domains, gpu_devices,
                     target_process, popen, start_time, file_handle,
                     csv_writer, keys_order, header_printed, ts, row,
                     line>>
vars == <<progVars, envVars, obsVars, ctrVars>>

\* --------------------------------------------------------------- dict, text
Keys(d) == [i \in 1..Len(d) |-> d[i][1]]
HasKey(d, k) == \E i \in 1..Len(d) : d[i][1] = k
Get(d, k) == d[CHOOSE i \in 1..Len(d) : d[i][1] = k][2]

\* d[k] = v: a present key keeps its position, a new key goes last
DictSet(d, k, v) ==
    IF HasKey(d, k)
    THEN [i \in 1..Len(d) |-> IF d[i][1] = k THEN <<k, v>> ELSE d[i]]
    ELSE Append(d, <<k, v>>)

Comma == <<",">>
\* str(v) of a scalar: one token; str("") is no token at all
Str(v) == << <<"text", v>> >>
EmptyStr == <<>>

RECURSIVE Join(_)
\* ",".join(fields), each field a sequence of tokens
Join(fields) ==
    IF Len(fields) = 0 THEN <<>>
    ELSE IF Len(fields) = 1 THEN fields[1]
    ELSE fields[1] \o <<Comma>> \o Join(Tail(fields))

RECURSIVE Split(_)
\* txt.split(","): the comma-separated fields of a line
Split(txt) ==
    IF \A i \in 1..Len(txt) : txt[i] # Comma THEN <<txt>>
    ELSE LET c == CHOOSE i \in 1..Len(txt) :
                     txt[i] = Comma /\ \A j \in 1..(i - 1) : txt[j] # Comma
         IN  <<SubSeq(txt, 1, c - 1)>> \o Split(SubSeq(txt, c + 1, Len(txt)))

\* the frozen columns followed by the values of the keys that came late
csv_line_append_late(r, order) ==
    LET known(e) == \E i \in 1..Len(order) : order[i] = e[1]
        late == SelectSeq(r, LAMBDA e : ~known(e))
    IN  Join([i \in 1..(Len(order) + Len(late)) |->
                IF i <= Len(order)
                THEN (IF HasKey(r, order[i]) THEN Str(Get(r, order[i]))
                      ELSE EmptyStr)
                ELSE Str(late[i - Len(order)][2])])

\* the line built from the row's own keys, as format_row() does
csv_line_own_keys(r, order) ==
    Join([i \in 1..Len(r) |-> Str(r[i][2])])

\* [row.get(k, "") for k in keys_order], each value through str()
csv_line(r, order) ==
    Join([i \in 1..Len(order) |->
            IF HasKey(r, order[i]) THEN Str(Get(r, order[i])) ELSE EmptyStr])

\* the header line: csv.writer.writerow(keys), or "#" + ",".join(keys)
csv_header(order, to_writer) ==
    (IF to_writer THEN <<>> ELSE << <<"#">> >>)
        \o Join([i \in 1..Len(order) |-> Str(order[i])])

RECURSIVE JsonItems(_)
JsonItems(r) ==
    IF Len(r) = 0 THEN <<>>
    ELSE << <<"key", r[1][1]>>, <<":">>, <<"text", r[1][2]>> >>
         \o (IF Len(r) = 1 THEN <<>> ELSE <<Comma>> \o JsonItems(Tail(r)))

\* json.dumps(row, ensure_ascii=False)
json_dumps(r) == << <<"{">> >> \o JsonItems(r) \o << <<"}">> >>

\* the keys of the object a JSON line parses to
JsonKeys(txt) ==
    LET idx == {i \in 1..Len(txt) : txt[i][1] = "key"}
    IN  {txt[i][2] : i \in idx}

\* ------------------------------------------------------------ float values
FloatVal(q) == <<"float", q[1], q[2]>>
IntVal(n) == <<"int", n>>
TrueVal == <<"bool", TRUE>>

RECURSIVE Pow10(_)
Pow10(n) == IF n = 0 THEN 1 ELSE 10 * Pow10(n - 1)

\* round(q, nd): nearest multiple of 10^-nd, ties to even
Round(q, nd) ==
    LET s == q[1] * Pow10(nd)
        fl == s \div q[2]
        rem == s - fl * q[2]
        r == IF 2 * rem > q[2] THEN fl + 1
             ELSE IF 2 * rem < q[2] THEN fl
             ELSE IF fl % 2 = 0 THEN fl ELSE fl + 1
    IN  Frac(r, Pow10(nd))

\* ------------------------------------------------------------ command line
\* build_arg_parser: the command lines considered.  Runs on a machine
\* without devices vary the timing and the target, in csv; runs on a
\* machine with energy counters and a GPU vary what is sampled: in jsonl
\* with both kinds of device, in csv with one kind switched off.  The
\* clock starts at 1, and also at 0 for one command line that samples
\* energy counters.
Commands == {<<>>, <<"--">>, <<"--", "prog">>, <<"prog">>}
Formats == {"csv", "jsonl"}
Outputs == {"", "out.csv"}
ControlArgs ==
    [interval : 1..MaxInterval, duration : 0..MaxDuration,
     output : Outputs, format : {"csv"}, command : Commands,
     pid : {0}, no_gpu : BOOLEAN, no_cpu : {TRUE}]
    \cup
    [interval : 1..MaxInterval, duration : 0..MaxDuration,
     output : Outputs, format : {"csv"}, command : {<<>>},
     pid : {7}, no_gpu : BOOLEAN, no_cpu : {TRUE}]
ContentArgs ==
    {a \in [interval : {1}, duration : {0}, output : Outputs,
            format : Formats, command : {<<>>, <<"prog">>}, pid : {0},
            no_gpu : BOOLEAN, no_cpu : BOOLEAN] :
        IF a.format = "csv" THEN a.no_gpu # a.no_cpu
        ELSE ~a.no_gpu /\ ~a.no_cpu}
\* the command line of the runs whose clock starts at 0
EpochArgs ==
    [interval |-> 1, duration |-> 0, output |-> "", format |-> "csv",
     command |-> <<>>, pid |-> 0, no_gpu |-> TRUE, no_cpu |-> FALSE]
Runs ==
    [args : ControlArgs, nvml : BOOLEAN,
     host : [gpus : {0}, cpu_freq : {TRUE}, epoch : {1}]]
    \cup
    {r \in [args : ContentArgs, nvml : {TRUE},
             host : [gpus : {1}, cpu_freq : BOOLEAN, epoch : {0, 1}]] :
        r.host.epoch = 0 => r.args = EpochArgs /\ r.host.cpu_freq}

\* no query made: the value of answers outside lines 297-335
NoAnswers == [target |-> FALSE, rapl |-> <<>>, gpu |-> <<>>, proc |-> FALSE]

\* the state at the entry of main(), for a command line, an import result
\* and a machine
Startup(a, nvml, h) ==
    /\ pc = "start"
    /\ args = a
    /\ host = h
    /\ NVML_AVAILABLE = nvml
    /\ rapl_domains = <<>>
    /\ gpu_devices = <<>>
    /\ target_process = None
    /\ popen = None
    /\ start_time = 0
    /\ file_handle = None
    /\ csv_writer = FALSE
    /\ keys_order = <<>>
    /\ header_printed = FALSE
    /\ ts = 0
    /\ row = <<>>
    /\ line = <<>>
    /\ clock = h.epoch
    /\ proc_state \in (IF a.pid # 0 /\ a.command = <<>>
                       THEN {"alive", "gone"} ELSE {"none"})
    /\ nvml_state = "uninit"
    /\ nvml_shutdowns = 0
    /\ interrupts = 0
    /\ exit_status = "running"
    /\ error_log = 0
    /\ ticks = 0
    /\ out_header = <<>>
    /\ out_count = 0
    /\ sleep_ok = TRUE
    /\ poll_status = FALSE
    /\ after_poll = 0
    /\ answers = NoAnswers
    /\ ended = FALSE
    /\ late_queries = 0
    /\ flagged = 0
    /\ stop_reason = "none"
    /\ accessible = {}
    /\ primed = <<>>
    /\ counter = NewRaplDomain("package-0")
    /\ calls = <<>>

Init == \E r \in Runs : Startup(r.args, r.nvml, r.host)

\* ------------------------------------------- the energy counter on its own
EnergyValues == {1000000, 1500000, 2200000}
\* read_energy_uj(): the integer in the file, or None on any failure
Readings == {None} \cup {Some(e) : e \in EnergyValues}

DefaultArgs ==
    [interval |-> 1, duration |-> 0, output |-> "", format |-> "csv",
     command |-> <<>>, pid |-> 0, no_gpu |-> FALSE, no_cpu |-> FALSE]

CounterInit ==
    Startup(DefaultArgs, FALSE,
            [gpus |-> 0, cpu_freq |-> TRUE, epoch |-> 1])

\* one call counter.sample_power_w(), the file holding energy and
\* time.time() returning now
CounterSample ==
    /\ Len(calls) < MaxCalls
    /\ \E energy \in Readings, now \in 0..MaxTimestamp :
          LET r == sample_power_w(counter, energy, now)
          IN  /\ counter' = r.self
              /\ calls' = Append(calls, [energy |-> energy, now |-> now,
                                         ret |-> r.ret, before |-> counter,
                                         after |-> r.self])
    /\ UNCHANGED <<progVars, envVars, obsVars>>

CounterNext == CounterSample
SpecCounter == CounterInit /\ [][CounterNext]_vars

\* ----------------------------------------------- claims on the energy counter
ReadOk(k) == calls[k].energy # None

\* the last call before k whose raw read succeeded, 0 if there is none
PrevOk(k) ==
    LET s == {j \in 1..(k - 1) : ReadOk(j)}
    IN  IF s = {} THEN 0 ELSE CHOOSE j \in s : \A i \in s : i <= j

\* (e1 - e0) / 1e6 / (t1 - t0)
PowerBetween(e0, t0, e1, t1) == FloatDiv(Frac(e1 - e0, 1000000), t1 - t0)

\* C1 (as stated): with every read successful and the timestamps strictly
\* increasing from any t_0, 0 included, the k-th call (k >= 1) returns
\* (e_k - e_(k-1)) / 1e6 / (t_k - t_(k-1)).
C1_PowerFromPrecedingReading ==
    \A k \in 2..Len(calls) :
        (/\ \A j \in 1..k : ReadOk(j)
         /\ \A j \in 2..k : calls[j - 1].now < calls[j].now)
        => calls[k].ret = Some(PowerBetween(calls[k - 1].energy[1],
                                            calls[k - 1].now,
                                            calls[k].energy[1],
                                            calls[k].now))

\* C2: the first sample_power_w() call of a counter returns nothing whatever
\* the raw read gave, and a successful first read becomes the baseline.
C2_FirstCallReturnsNothing ==
    Len(calls) >= 1 =>
        /\ calls[1].ret = None
        /\ ReadOk(1) => /\ calls[1].after.last_energy_uj = calls[1].energy
                        /\ calls[1].after.last_timestamp = Some(calls[1].now)
        /\ ~ReadOk(1) => calls[1].after = NewRaplDomain("package-0")

C2_Witness ==
    /\ Len(calls) >= 1
    /\ calls[1].energy = Some(2200000)
    /\ calls[1].now = 1
    /\ counter.last_energy_uj = Some(2200000)

\* C3: a successful raw read always replaces the baseline by that read, a
\* failed one leaves it alone, and a successful read taken no later than the
\* previous successful one returns nothing.
C3_BaselineFollowsReads ==
    \A k \in 1..Len(calls) :
        /\ ReadOk(k) => /\ calls[k].after.last_energy_uj = calls[k].energy
                        /\ calls[k].after.last_timestamp = Some(calls[k].now)
        /\ ~ReadOk(k) => calls[k].after = calls[k].before
        /\ (ReadOk(k) /\ PrevOk(k) # 0
              /\ calls[k].now - calls[PrevOk(k)].now <= 0)
           => calls[k].ret = None

C3_Witness ==
    \E k \in 2..Len(calls) :
        /\ ReadOk(k) /\ ReadOk(k - 1)
        /\ calls[k].now < calls[k - 1].now
        /\ calls[k].energy # calls[k - 1].energy
        /\ counter.last_timestamp = Some(calls[k].now)
        /\ k = Len(calls)

\* C11 (as stated): after a gap, one or more failed raw reads following a
\* successful one, the first successful sample_power_w() call returns
\* nothing; a value is only derived from two consecutive calls whose reads
\* both succeeded.
C11_NoValueAcrossGap ==
    \A k \in 2..Len(calls) :
        (ReadOk(k) /\ PrevOk(k) # 0 /\ PrevOk(k) < k - 1)
        => calls[k].ret = None

\* C17 (as stated): when the raw value decreases between two consecutive
\* successful reads, sample_power_w() returns nothing, and no call ever
\* returns a negative power.
C17_NoNegativePower ==
    \A k \in 1..Len(calls) :
        /\ (ReadOk(k) /\ PrevOk(k) # 0
              /\ calls[k].energy[1] < calls[PrevOk(k)].energy[1])
           => calls[k].ret = None
        /\ calls[k].ret # None => calls[k].ret[1][1] >= 0

\* ------------------------------------------------------------------ main()
Min(a, b) == IF a < b THEN a ELSE b

\* the name read from the domain's name file
DomainName(i) == "package-" \o ToString(i - 1)
ChildPid == 9

\* discover_rapl_domains()
discover_rapl_domains == [i \in 1..NumDomains |-> NewRaplDomain(DomainName(i))]

\* lines 227-228: discover_rapl_domains() and init_nvml_devices(); nvmlInit()
\* may raise (nothing initialised), and an enumeration call may raise after
\* nvmlInit() succeeded (empty list, subsystem initialised)
Discover ==
    /\ pc = "start"
    /\ rapl_domains' = IF ~args.no_cpu THEN discover_rapl_domains ELSE <<>>
    /\ IF ~args.no_gpu /\ NVML_AVAILABLE
       THEN \/ /\ nvml_state' = "uninit"
               /\ gpu_devices' = <<>>
            \/ /\ nvml_state' = "init"
               /\ gpu_devices' \in {<<>>, [i \in 1..host.gpus |-> i - 1]}
       ELSE UNCHANGED <<nvml_state, gpu_devices>>
    /\ pc' = "target"
    /\ UNCHANGED <<args, host, NVML_AVAILABLE, target_process, popen, start_time,
                   file_handle, csv_writer, keys_order, header_printed, ts,
                   row, line>>
    /\ UNCHANGED <<clock, proc_state, nvml_shutdowns, interrupts,
                   exit_status, error_log, ticks, out_header, out_count, sleep_ok, poll_status, after_poll>>
    /\ UNCHANGED obsVars
    /\ UNCHANGED ctrVars

\* lines 230-246: launch the command, or attach to --pid
Target ==
    /\ pc = "target"
    /\ IF args.command # <<>>
       THEN LET cmd == IF args.command[1] = "--"
                       THEN Tail(args.command) ELSE args.command
            IN  IF cmd = <<>>
                THEN /\ error_log' = error_log + 1
                     /\ pc' = "done"
                     /\ exit_status' = "returned"
                     /\ UNCHANGED <<popen, target_process, proc_state>>
                ELSE /\ popen' = Some(ChildPid)
                     /\ proc_state' = "alive"
                     /\ target_process' = Some(ChildPid)
                     /\ pc' = "open"
                     /\ UNCHANGED <<error_log, exit_status>>
       ELSE IF args.pid # 0
       THEN /\ IF proc_state = "alive"
               THEN /\ target_process' = Some(args.pid)
                    /\ UNCHANGED error_log
               ELSE /\ error_log' = error_log + 1
                    /\ UNCHANGED target_process
            /\ pc' = "open"
            /\ UNCHANGED <<popen, proc_state, exit_status>>
       ELSE /\ pc' = "open"
            /\ UNCHANGED <<popen, target_process, proc_state, error_log,
                           exit_status>>
    /\ UNCHANGED <<args, host, NVML_AVAILABLE, rapl_domains, gpu_devices,
                   start_time, file_handle, csv_writer, keys_order,
                   header_printed, ts, row, line>>
    /\ UNCHANGED <<clock, nvml_state, nvml_shutdowns, interrupts, ticks,
                   out_header, out_count, sleep_ok,
                   poll_status, after_poll>>
    /\ UNCHANGED obsVars
    /\ UNCHANGED ctrVars

\* lines 248-257: start_time, and the output file
OpenOutput ==
    /\ pc = "open"
    /\ start_time' = clock
    /\ IF args.output # ""
       THEN /\ file_handle' = Some("open")
            /\ csv_writer' = (args.format = "csv")
       ELSE UNCHANGED <<file_handle, csv_writer>>
    /\ pc' = "filter"
    /\ UNCHANGED <<args, host, NVML_AVAILABLE, rapl_domains, gpu_devices,
                   target_process, popen, keys_order, header_printed, ts,
                   row, line>>
    /\ UNCHANGED envVars
    /\ UNCHANGED obsVars
    /\ UNCHANGED ctrVars

\* the start-up filter keeping every discovered domain
KeepByIndex_all(s, keep, from) == SubSeq(s, from, Len(s))

RECURSIVE KeepByIndex(_, _, _)
\* the elements s[i], i >= from, with keep[i]
KeepByIndex(s, keep, from) ==
    IF from > Len(s) THEN <<>>
    ELSE (IF keep[from] THEN <<s[from]>> ELSE <<>>)
         \o KeepByIndex(s, keep, from + 1)

\* lines 259-285: one throwaway read per domain; the readable ones stay
FilterRapl ==
    /\ pc = "filter"
    /\ \E readable \in [1..Len(rapl_domains) -> BOOLEAN] :
          /\ rapl_domains' = KeepByIndex(rapl_domains, readable, 1)
          /\ accessible' = {rapl_domains[i].name :
                               i \in {j \in 1..Len(rapl_domains) :
                                          readable[j]}}
    /\ pc' = "prime"
    /\ UNCHANGED <<args, host, NVML_AVAILABLE, gpu_devices, target_process, popen,
                   start_time, file_handle, csv_writer, keys_order,
                   header_printed, ts, row, line>>
    /\ UNCHANGED envVars
    /\ UNCHANGED <<answers, ended, late_queries, flagged, stop_reason, primed>>
    /\ UNCHANGED ctrVars

\* the accumulator of a domain at time t: the file holds an integer
EnergyAt(t) == 1000000 * t

\* read_energy_uj() in main(): the accumulator, or None when the read fails
read_energy_uj(ok, t) == IF ok THEN Some(EnergyAt(t)) ELSE None

\* lines 287-289: one sample_power_w() per domain, result dropped
Prime ==
    /\ pc = "prime"
    /\ \E ok \in [1..Len(rapl_domains) -> BOOLEAN] :
          /\ rapl_domains' =
                [i \in 1..Len(rapl_domains) |->
                    sample_power_w(rapl_domains[i],
                                   read_energy_uj(ok[i], clock), clock).self]
          /\ primed' = [i \in 1..Len(rapl_domains) |->
                          [ok |-> ok[i], at |-> clock]]
    /\ pc' = "loop"
    /\ UNCHANGED <<args, host, NVML_AVAILABLE, gpu_devices, target_process, popen,
                   start_time, file_handle, csv_writer, keys_order,
                   header_printed, ts, row, line>>
    /\ UNCHANGED envVars
    /\ UNCHANGED <<answers, ended, late_queries, flagged, stop_reason, accessible>>
    /\ UNCHANGED ctrVars

\* the duration compared in milliseconds with an elapsed time in seconds
duration_elapsed_ms(elapsed) ==
    args.duration # 0 /\ elapsed >= args.duration * 1000

\* line 295: args.duration and elapsed >= args.duration
duration_elapsed(elapsed) ==
    args.duration # 0 /\ elapsed >= args.duration

\* lines 292-296: ts = time.time() and the duration check.  Start-up may
\* have taken a unit of the clock when the first ts is read; the work of a
\* tick takes less than a unit.  The guard on ticks caps the iterations of
\* an unbounded run.
LoopTop ==
    /\ pc = "loop"
    /\ \E adv \in (IF ticks = 0 THEN 0..1 ELSE {0}) :
          /\ clock' = Min(clock + adv, MaxTime)
          /\ ts' = clock'
          /\ LET elapsed == clock' - start_time
             IN  IF duration_elapsed(elapsed)
                 THEN /\ pc' = "finally"
                      /\ stop_reason' = "duration"
                      /\ UNCHANGED ticks
                 ELSE /\ ticks < MaxRecords
                      /\ pc' = "sample"
                      /\ ticks' = ticks + 1
                      /\ UNCHANGED stop_reason
    /\ UNCHANGED <<args, host, NVML_AVAILABLE, rapl_domains, gpu_devices,
                   target_process, popen, start_time, file_handle,
                   csv_writer, keys_order, header_printed, row, line>>
    /\ UNCHANGED <<proc_state, nvml_state, nvml_shutdowns, interrupts,
                   exit_status, error_log, out_header, out_count, sleep_ok, poll_status, after_poll>>
    /\ UNCHANGED <<answers, ended, late_queries, flagged, accessible, primed>>
    /\ UNCHANGED ctrVars

\* values the system-wide and the device queries return
CpuPercent == <<25, 2>>
CpuFreqMhz == <<2400, 1>>
GpuPowerMw == 75250
\* which of the four queries on one device answer in one tick: all of them,
\* or all but one
AllAnswer == [power |-> TRUE, util |-> TRUE, freq |-> TRUE, proc |-> TRUE]
GpuAnswers ==
    {AllAnswer} \cup {[AllAnswer EXCEPT ![q] = FALSE] :
                         q \in {"power", "util", "freq", "proc"}}

RECURSIVE SampleRapl(_, _, _, _, _)
\* lines 308-311, from domain i on: the row and the domains afterwards
SampleRapl(r, doms, ok, now, i) ==
    IF i > Len(doms) THEN [row |-> r, doms |-> doms]
    ELSE LET s == sample_power_w(doms[i], read_energy_uj(ok[i], now), now)
             r2 == IF s.ret # None
                   THEN DictSet(r, "cpu_" \o doms[i].name \o "_power_w",
                                FloatVal(Round(s.ret[1], 3)))
                   ELSE r
         IN  SampleRapl(r2, [doms EXCEPT ![i] = s.self], ok, now, i + 1)

\* sample_gpu_util(dev): four entries, or none when a query raises
sample_gpu_util(ok) ==
    IF ok THEN << <<"gpu_util_percent", IntVal(40)>>,
                  <<"mem_util_percent", IntVal(10)>>,
                  <<"mem_used_mb", FloatVal(<<512, 1>>)>>,
                  <<"mem_total_mb", FloatVal(<<8192, 1>>)>> >>
    ELSE <<>>

\* sample_gpu_process_util(dev, pid): one entry when pid runs on the device
sample_gpu_process_util(found) ==
    IF found THEN << <<"gpu_proc_mem_used_mb", FloatVal(<<128, 1>>)>> >>
    ELSE <<>>

RECURSIVE Prefixed(_, _, _)
\* row[f"gpu{index}_{k}"] = v for k, v in d.items()
Prefixed(r, index, d) ==
    IF Len(d) = 0 THEN r
    ELSE Prefixed(DictSet(r, "gpu" \o ToString(index) \o "_" \o d[1][1],
                          d[1][2]),
                  index, Tail(d))

RECURSIVE SampleGpus_abort_device(_, _, _, _, _)
\* a failed power query ending the work on that device for the tick
SampleGpus_abort_device(r, devs, ans, has_target, i) ==
    IF i > Len(devs) THEN r
    ELSE LET g == "gpu" \o ToString(devs[i])
             r1 == DictSet(r, g \o "_power_w",
                           FloatVal(Round(Frac(GpuPowerMw, 1000), 1)))
             r2 == Prefixed(r1, devs[i], sample_gpu_util(ans[i].util))
             r3 == IF ans[i].freq
                   THEN DictSet(r2, g \o "_freq_mhz", IntVal(1500))
                   ELSE r2
             r4 == IF has_target
                   THEN Prefixed(r3, devs[i],
                                 sample_gpu_process_util(ans[i].proc))
                   ELSE r3
         IN  SampleGpus_abort_device(IF ans[i].power THEN r4 ELSE r,
                                     devs, ans, has_target, i + 1)

RECURSIVE SampleGpus(_, _, _, _, _)
\* lines 312-326, from device i on
SampleGpus(r, devs, ans, has_target, i) ==
    IF i > Len(devs) THEN r
    ELSE LET g == "gpu" \o ToString(devs[i])
             r1 == IF ans[i].power
                   THEN DictSet(r, g \o "_power_w",
                                FloatVal(Round(Frac(GpuPowerMw, 1000), 1)))
                   ELSE r
             r2 == Prefixed(r1, devs[i], sample_gpu_util(ans[i].util))
             r3 == IF ans[i].freq
                   THEN DictSet(r2, g \o "_freq_mhz", IntVal(1500))
                   ELSE r2
             r4 == IF has_target
                   THEN Prefixed(r3, devs[i],
                                 sample_gpu_process_util(ans[i].proc))
                   ELSE r3
         IN  SampleGpus(r4, devs, ans, has_target, i + 1)

\* proc_cpu_percent written before memory_info() raises
proc_metrics_partial(r, ok) ==
    IF ok
    THEN DictSet(DictSet(r, "proc_cpu_percent", FloatVal(<<0, 1>>)),
                 "proc_mem_rss_mb", FloatVal(<<64, 1>>))
    ELSE DictSet(DictSet(r, "proc_cpu_percent", FloatVal(<<0, 1>>)),
                 "proc_ended", TrueVal)

\* lines 328-334: the two process queries, then the two keys; proc_ended
\* alone when a query raised
proc_metrics(r, ok) ==
    IF ok
    THEN DictSet(DictSet(r, "proc_cpu_percent", FloatVal(<<0, 1>>)),
                 "proc_mem_rss_mb", FloatVal(<<64, 1>>))
    ELSE DictSet(r, "proc_ended", TrueVal)

\* the handle kept after a query raised
after_failed_query_kept(tp) == tp

\* line 335: target_process after a query raised
after_failed_query(tp) == None

\* lines 297-335: build the row of this tick
SampleRow ==
    /\ pc = "sample"
    /\ \E freq_ok \in {host.cpu_freq},
          ok \in [1..Len(rapl_domains) -> BOOLEAN],
          ans \in [1..Len(gpu_devices) -> GpuAnswers],
          proc_ok \in BOOLEAN :
          \* a process that is gone answers no query
          /\ proc_ok => proc_state \in {"alive", "zombie"}
          /\ \A i \in 1..Len(gpu_devices) :
                ans[i].proc => (target_process = None
                                \/ proc_state \in {"alive", "zombie"})
          /\ LET r0 == << <<"timestamp", FloatVal(<<ts, 1>>)>>,
                          <<"datetime", <<"str", ts>> >> >>
                 r1 == DictSet(r0, "cpu_usage_percent",
                               FloatVal(Round(CpuPercent, 1)))
                 r2 == IF freq_ok
                       THEN DictSet(r1, "cpu_freq_mhz",
                                    FloatVal(Round(CpuFreqMhz, 0)))
                       ELSE r1
                 s == SampleRapl(r2, rapl_domains, ok, clock, 1)
                 r4 == SampleGpus(s.row, gpu_devices, ans,
                                  target_process # None, 1)
                 has_target == target_process # None
             IN  /\ rapl_domains' = s.doms
                 /\ IF has_target
                    THEN /\ row' = proc_metrics(r4, proc_ok)
                         /\ target_process' =
                               IF proc_ok THEN target_process
                               ELSE after_failed_query(target_process)
                         /\ ended' = (ended \/ ~proc_ok)
                    ELSE /\ row' = r4
                         /\ UNCHANGED <<target_process, ended>>
                 /\ answers' =
                       [target |-> has_target,
                        rapl |-> ok,
                        gpu |-> [i \in 1..Len(gpu_devices) |->
                                   [ans[i] EXCEPT
                                      !.proc = has_target /\ ans[i].proc]],
                        proc |-> has_target /\ proc_ok]
                 /\ late_queries' =
                       late_queries + (IF ended /\ has_target THEN 1 ELSE 0)
    /\ pc' = "emit"
    /\ UNCHANGED <<args, host, NVML_AVAILABLE, gpu_devices, popen, start_time,
                   file_handle, csv_writer, keys_order, header_printed, ts,
                   line>>
    /\ UNCHANGED envVars
    /\ UNCHANGED <<flagged, stop_reason, accessible, primed>>
    /\ UNCHANGED ctrVars

\* the json line of the row restricted to the frozen key order
jsonl_line_frozen(r) ==
    json_dumps(SelectSeq(r, LAMBDA e : \E i \in 1..Len(keys_order) :
                                         keys_order[i] = e[1]))

\* lines 350-354: json.dumps(row, ensure_ascii=False)
jsonl_line(r) == json_dumps(r)

\* lines 336-354: write the row, in csv after the header of the first row
Emit ==
    /\ pc = "emit"
    /\ IF args.format = "csv"
       THEN LET order == IF ~header_printed THEN Keys(row) ELSE keys_order
            IN  /\ keys_order' = order
                /\ header_printed' = TRUE
                /\ out_header' =
                      IF ~header_printed
                      THEN Append(out_header,
                                  [text |-> csv_header(order, csv_writer),
                                   rows_before |-> out_count])
                      ELSE out_header
                /\ line' = csv_line(row, order)
       ELSE /\ line' = jsonl_line(row)
            /\ UNCHANGED <<keys_order, header_printed, out_header>>
    /\ out_count' = out_count + 1
    /\ flagged' = flagged + (IF HasKey(row, "proc_ended") THEN 1 ELSE 0)
    /\ answers' = NoAnswers
    /\ primed' = <<>>
    /\ after_poll' = IF poll_status THEN after_poll + 1 ELSE after_poll
    /\ pc' = "poll"
    /\ UNCHANGED <<args, host, NVML_AVAILABLE, rapl_domains, gpu_devices,
                   target_process, popen, start_time, file_handle,
                   csv_writer, ts, row>>
    /\ UNCHANGED <<clock, proc_state, nvml_state, nvml_shutdowns, interrupts,
                   exit_status, error_log, ticks, sleep_ok, poll_status>>
    /\ UNCHANGED <<ended, late_queries, stop_reason, accessible>>
    /\ UNCHANGED ctrVars

\* the break taken while the process handle is still set
command_finished_while_tracked(status) == status /\ target_process # None

\* the break taken on the dropped handle alone, poll() not consulted
command_finished_unpolled(status) == target_process = None

\* line 356: popen.poll() is not None and not target_process
command_finished(status) == status /\ target_process = None

\* lines 356-358: popen.poll() reaps an exited child and returns its status.
\* row and line are dead from here to line 297 of the next iteration.
PollCheck ==
    /\ pc = "poll"
    /\ IF popen # None
       THEN LET status == proc_state \in {"zombie", "gone"}
            IN  /\ proc_state' = IF proc_state = "zombie" THEN "gone"
                                 ELSE proc_state
                /\ poll_status' = (poll_status \/ status)
                /\ pc' = IF command_finished(status)
                         THEN "finally" ELSE "sleep"
       ELSE /\ pc' = "sleep"
            /\ UNCHANGED <<proc_state, poll_status>>
    /\ stop_reason' = IF pc' = "finally" THEN "process" ELSE stop_reason
    /\ row' = <<>>
    /\ line' = <<>>
    /\ UNCHANGED <<args, host, NVML_AVAILABLE, rapl_domains, gpu_devices,
                   target_process, popen, start_time, file_handle,
                   csv_writer, keys_order, header_printed, ts>>
    /\ UNCHANGED <<clock, nvml_state, nvml_shutdowns, interrupts,
                   exit_status, error_log, ticks, out_header, out_count,
                   sleep_ok, after_poll>>
    /\ UNCHANGED <<answers, ended, late_queries, flagged, accessible, primed>>
    /\ UNCHANGED ctrVars

\* line 360: time.sleep(args.interval); the clock advances by the interval,
\* or by one unit less when the sleep or the clock misbehaves
Sleep ==
    /\ pc = "sleep"
    /\ \E d \in {args.interval - 1, args.interval} :
          /\ clock' = Min(clock + d, MaxTime)
          /\ sleep_ok' = (sleep_ok /\ clock' - clock >= args.interval)
    /\ pc' = "loop"
    /\ UNCHANGED progVars_but_pc
    /\ UNCHANGED <<proc_state, nvml_state, nvml_shutdowns, interrupts,
                   exit_status, error_log, ticks, out_header, out_count, poll_status, after_poll>>
    /\ UNCHANGED obsVars
    /\ UNCHANGED ctrVars

\* lines 363-365: close the output file
FinallyClose ==
    /\ pc = "finally"
    /\ file_handle' = IF file_handle # None THEN Some("closed") ELSE None
    /\ pc' = "shutdown"
    /\ UNCHANGED <<args, host, NVML_AVAILABLE, rapl_domains, gpu_devices,
                   target_process, popen, start_time, csv_writer, keys_order,
                   header_printed, ts, row, line>>
    /\ UNCHANGED envVars
    /\ UNCHANGED obsVars
    /\ UNCHANGED ctrVars

\* lines 366-370: nvmlShutdown(); it raises when the subsystem is not
\* initialised, and the exception is dropped
FinallyShutdown ==
    /\ pc = "shutdown"
    /\ IF NVML_AVAILABLE /\ nvml_state = "init"
       THEN /\ nvml_state' = "released"
            /\ nvml_shutdowns' = nvml_shutdowns + 1
       ELSE UNCHANGED <<nvml_state, nvml_shutdowns>>
    /\ pc' = "done"
    /\ exit_status' = "returned"
    /\ UNCHANGED progVars_but_pc
    /\ UNCHANGED <<clock, proc_state, interrupts, error_log, ticks,
                   out_header, out_count, sleep_ok,
                   poll_status, after_poll>>
    /\ UNCHANGED obsVars
    /\ UNCHANGED ctrVars

\* SIGINT: KeyboardInterrupt is raised at the current position.  Lines
\* 291-362 catch it; before line 291 and inside the finally block it leaves
\* main().
Interrupt ==
    /\ interrupts = 0
    /\ pc # "done"
    /\ interrupts' = 1
    /\ IF pc \in {"loop", "sample", "emit", "poll", "sleep"}
       THEN /\ pc' = "finally"
            /\ stop_reason' = "interrupt"
            /\ UNCHANGED exit_status
       ELSE /\ pc' = "done"
            /\ exit_status' = "KeyboardInterrupt"
            /\ UNCHANGED stop_reason
    /\ answers' = NoAnswers
    /\ row' = <<>>
    /\ line' = <<>>
    /\ UNCHANGED <<args, host, NVML_AVAILABLE, rapl_domains, gpu_devices,
                   target_process, popen, start_time, file_handle,
                   csv_writer, keys_order, header_printed, ts>>
    /\ UNCHANGED <<clock, proc_state, nvml_state, nvml_shutdowns, error_log,
                   ticks, out_header, out_count,
                   sleep_ok, poll_status, after_poll>>
    /\ UNCHANGED <<ended, late_queries, flagged, accessible, primed>>
    /\ UNCHANGED ctrVars

\* the monitored process exits: a launched child stays a zombie until
\* popen.poll() reaps it, an attached process disappears
ProcessExits ==
    /\ pc # "done"
    /\ proc_state = "alive"
    /\ proc_state' = IF popen # None THEN "zombie" ELSE "gone"
    /\ UNCHANGED progVars
    /\ UNCHANGED <<clock, nvml_state, nvml_shutdowns, interrupts,
                   exit_status, error_log, ticks, out_header, out_count, sleep_ok, poll_status, after_poll>>
    /\ UNCHANGED obsVars
    /\ UNCHANGED ctrVars

Program ==
    \/ Discover
    \/ Target
    \/ OpenOutput
    \/ FilterRapl
    \/ Prime
    \/ LoopTop
    \/ SampleRow
    \/ Emit
    \/ PollCheck
    \/ Sleep
    \/ FinallyClose
    \/ FinallyShutdown

Next == Program \/ Interrupt \/ ProcessExits

Spec == Init /\ [][Next]_vars

\* The runs with a duration and without devices, main() running on: each
\* of its steps terminates, so a step that stays possible is taken.
TimedRuns ==
    [args : {a \in ControlArgs : a.duration > 0}, nvml : BOOLEAN,
     host : [gpus : {0}, cpu_freq : {TRUE}, epoch : {1}]]
TimedInit == \E r \in TimedRuns : Startup(r.args, r.nvml, r.host)
FairSpec == TimedInit /\ [][Next]_vars /\ WF_vars(Program)

\* ------------------------------------------------------ claims on main()
\* C4 (as stated): whenever the vendor subsystem was initialised, it has been
\* released exactly once when main() has ended, whatever the exit path.
C4_ReleasedExactlyOnce ==
    (pc = "done" /\ nvml_state # "uninit")
    => (nvml_state = "released" /\ nvml_shutdowns = 1)

\* C5 (as stated): after a start-up error (an empty launch command, an
\* unreachable --pid) was logged, no tick runs and no record is written.
C5_NoLoopAfterStartupError ==
    error_log > 0 => (ticks = 0 /\ out_count = 0)

\* the fields of a header line, without the "#" of the stdout header
HeaderFields(text) ==
    Split(IF text[1] = <<"#">> THEN Tail(text) ELSE text)

\* C6: in csv mode the header is written once, before any data row, and is
\* the key sequence of the first record; every data row has one field per
\* header field, holding str() of the record's value for that header key
\* and nothing for a key the record lacks.
C6_CsvHeaderAndRows ==
    args.format = "csv" =>
        /\ Len(out_header) <= 1
        /\ out_count = 0 => out_header = <<>>
        /\ out_count > 0 => /\ Len(out_header) = 1
                            /\ out_header[1].rows_before = 0
        /\ pc = "poll" =>
              LET hdr == HeaderFields(out_header[1].text)
                  fields == Split(line)
              IN  /\ out_count = 1
                        => hdr = [i \in 1..Len(row) |-> Str(row[i][1])]
                  /\ Len(fields) = Len(hdr)
                  /\ \A i \in 1..Len(hdr) :
                        LET k == hdr[i][1][2]
                        IN  fields[i] = IF HasKey(row, k)
                                        THEN Str(Get(row, k)) ELSE <<>>

C6_Witness ==
    /\ args.format = "csv"
    /\ pc = "poll"
    /\ out_count >= 2
    /\ \E i \in 1..Len(keys_order) : ~HasKey(row, keys_order[i])
    /\ \E i \in 1..Len(row) :
          \A j \in 1..Len(keys_order) : keys_order[j] # row[i][1]

\* the keys of a JSON line in the order they are written
JsonKeySeq(txt) ==
    LET ks == SelectSeq(txt, LAMBDA t : t[1] = "key")
    IN  [i \in 1..Len(ks) |-> ks[i][2]]

\* C7: in jsonl mode every line carries exactly the keys of the record of
\* its tick, none added and none dropped.
C7_JsonlOwnKeys ==
    (args.format = "jsonl" /\ pc = "poll")
    => /\ JsonKeySeq(line) = Keys(row)
       /\ JsonKeys(line) = {row[i][1] : i \in 1..Len(row)}

C7_Witness ==
    /\ args.format = "jsonl"
    /\ pc = "poll"
    /\ out_count >= 2
    /\ HasKey(row, "proc_ended")
    /\ "proc_ended" \in JsonKeys(line)
    /\ Len(row) > 4

\* ceil(a / b) for b > 0
CeilDiv(a, b) == (a + b - 1) \div b

\* C8: with duration D > 0, interval I > 0 and every sleep advancing the
\* clock by at least I, at most ceil(D / I) + 1 records are written, and
\* main() ends.
C8_DurationBoundsRecords ==
    /\ [](args.duration > 0 /\ sleep_ok
            => out_count <= CeilDiv(args.duration, args.interval) + 1)
    /\ <>(args.duration > 0 => (pc = "done" \/ ~sleep_ok))

C8_Witness ==
    /\ args.duration = 2
    /\ args.interval = 1
    /\ sleep_ok
    /\ out_count = 2
    /\ pc = "done"
    /\ interrupts = 0
    /\ exit_status = "returned"

\* C9: with duration 0 and a launched command, after popen.poll() first
\* returned a status at most one more record is written, and once that
\* record's poll has run the loop has been left.
C9_StopsAfterExitObserved ==
    (args.duration = 0 /\ popen # None /\ poll_status)
    => /\ after_poll <= 1
       /\ after_poll = 1 => pc \in {"poll", "finally", "shutdown", "done"}

C9_Witness ==
    /\ args.duration = 0
    /\ popen # None
    /\ poll_status
    /\ after_poll = 1
    /\ pc = "done"
    /\ interrupts = 0

\* C10 (as stated): an interrupt arriving once the output file is open or
\* the subsystem is initialised closes the file, releases the subsystem and
\* does not leave main() as an exception.
C10_InterruptRunsShutdown ==
    (pc = "done" /\ interrupts > 0
       /\ (file_handle # None \/ nvml_state # "uninit"))
    => /\ file_handle # Some("open")
       /\ nvml_state # "init"
       /\ exit_status = "returned"

\* the child of a launched command has exited and its handle was dropped
child_finished_and_ended ==
    popen # None /\ proc_state \in {"zombie", "gone"} /\ target_process = None

\* C12 (as stated): a tick that starts with the duration exceeded, or with
\* the launched child finished and its handle Ended, samples nothing and
\* writes no record: line 293 is not followed by line 297.
C12_StopChecksAtTickStart ==
    [][(pc = "loop"
          /\ (duration_elapsed(clock - start_time)
                \/ child_finished_and_ended))
       => pc' # "sample"]_vars

\* C13: once a query on the monitored process has failed, the handle stays
\* dropped and no later iteration queries the process: neither lines
\* 329-330 nor the per-device process query of line 323 run again.
C13_NoQueryAfterEnded ==
    ended =>
        /\ target_process = None
        /\ late_queries = 0
        /\ (pc = "emit" /\ ~HasKey(row, "proc_ended"))
           => /\ ~answers.target
              /\ ~answers.proc
              /\ \A i \in 1..Len(answers.gpu) : ~answers.gpu[i].proc

C13_Witness ==
    /\ ended
    /\ pc = "emit"
    /\ ticks >= 2
    /\ ~HasKey(row, "proc_ended")
    /\ Len(gpu_devices) >= 1
    /\ proc_state = "alive"
    /\ late_queries = 0

\* the keys one query of a tick writes into the row
BaseKeys == {"timestamp", "datetime", "cpu_usage_percent"}
RaplKey(d) == "cpu_" \o d.name \o "_power_w"
GpuKeys(index, query) ==
    LET g == "gpu" \o ToString(index) \o "_"
    IN  CASE query = "power" -> {g \o "power_w"}
          [] query = "util" -> {g \o "gpu_util_percent",
                                g \o "mem_util_percent",
                                g \o "mem_used_mb", g \o "mem_total_mb"}
          [] query = "freq" -> {g \o "freq_mhz"}
          [] query = "proc" -> {g \o "gpu_proc_mem_used_mb"}
ProcKeys == {"proc_cpu_percent", "proc_mem_rss_mb"}
KeySet(d) == {d[i][1] : i \in 1..Len(d)}

\* the keys of a record other than counter powers, given which queries
\* answered
KeysFor(a) ==
    BaseKeys
    \cup (IF host.cpu_freq THEN {"cpu_freq_mhz"} ELSE {})
    \cup UNION {UNION {GpuKeys(gpu_devices[i], q) :
                         q \in {x \in {"power", "util", "freq", "proc"} :
                                  a.gpu[i][x]}} :
                  i \in 1..Len(a.gpu)}
    \cup (IF a.proc THEN ProcKeys ELSE {})
    \cup (IF a.target /\ ~a.proc THEN {"proc_ended"} ELSE {})

\* C14: every iteration that passed the duration check writes exactly one
\* record, whichever queries failed; the record holds the keys of every
\* query that answered, a failed query takes away its own keys only (a
\* failed process query leaves proc_ended in their place), and the
\* iteration reaches line 356.
C14_OneRecordPerIteration ==
    /\ pc \in {"sample", "emit"} => out_count = ticks - 1
    /\ pc \in {"poll", "sleep", "loop"} => out_count = ticks
    /\ interrupts = 0 => out_count \in {ticks - 1, ticks}
    /\ (interrupts = 0 /\ pc \in {"finally", "shutdown", "done"})
       => out_count = ticks
    /\ pc = "emit" =>
          LET rapl == {RaplKey(rapl_domains[i]) : i \in 1..Len(rapl_domains)}
              failed == {RaplKey(rapl_domains[i]) :
                            i \in {j \in 1..Len(rapl_domains) :
                                       ~answers.rapl[j]}}
          IN  /\ KeySet(row) \ rapl = KeysFor(answers)
              /\ KeySet(row) \cap failed = {}

C14_Witness ==
    /\ pc = "poll"
    /\ out_count = 2
    /\ ticks = 2
    /\ Len(gpu_devices) >= 1
    /\ ~HasKey(row, "gpu0_power_w")
    /\ HasKey(row, "gpu0_freq_mhz")
    /\ HasKey(row, "proc_ended")
    /\ \E i \in 1..Len(rapl_domains) : ~HasKey(row, RaplKey(rapl_domains[i]))

\* C15: the loop is left on the process condition only with a launched
\* command whose exit status poll() has returned and whose handle was
\* dropped; without a launched command a failed process query never ends
\* the loop, which is left only by the duration test or by an interrupt.
C15_ProcessStopOnlyWhenLaunched ==
    /\ stop_reason = "process"
       => (popen # None /\ poll_status /\ ended /\ target_process = None)
    /\ stop_reason = "duration"
       => (args.duration > 0 /\ ts - start_time >= args.duration)
    /\ stop_reason = "interrupt" => interrupts > 0
    /\ pc \in {"finally", "shutdown"} => stop_reason # "none"
    /\ (popen = None /\ ended /\ pc \in {"finally", "shutdown"})
       => stop_reason \in {"duration", "interrupt"}

C15_Witness ==
    /\ popen = None
    /\ args.pid # 0
    /\ ended
    /\ pc = "poll"
    /\ ~HasKey(row, "proc_ended")
    /\ out_count >= 2
    /\ interrupts = 0

\* the names of the domains main() samples
DomainNames == {rapl_domains[i].name : i \in 1..Len(rapl_domains)}

\* C16: from line 273 on, the domains main() holds are exactly those whose
\* start-up read succeeded: a domain whose read failed at line 262 is in no
\* later call, and a domain that passed stays whatever its later reads
\* give; priming and every tick read each of them once.
C16_CounterSetFixedAtStartup ==
    (pc \in {"prime", "loop", "sample", "emit", "poll", "sleep",
              "finally", "shutdown"} \/ ticks > 0)
    => /\ DomainNames = accessible
       /\ Len(rapl_domains) = Cardinality(accessible)
       /\ (pc \in {"loop", "sample", "emit"} /\ out_count = 0)
          => Len(primed) = Len(rapl_domains)
       /\ pc = "emit" => DOMAIN answers.rapl = 1..Len(rapl_domains)

C16_Witness ==
    /\ pc = "emit"
    /\ ticks = 3
    /\ Len(rapl_domains) >= 1
    /\ ~answers.rapl[1]
    /\ rapl_domains[1].last_energy_uj = Some(EnergyAt(start_time))
    /\ start_time < ts
    /\ DomainNames = accessible

\* the per-device process keys of a record
GpuProcKeys(d) ==
    {k \in KeySet(d) : \E i \in 1..Len(gpu_devices) :
                          k \in GpuKeys(gpu_devices[i], "proc")}

\* C18: over a run at most one record written carries proc_ended; the
\* record of that tick and of every later tick has neither
\* proc_cpu_percent nor proc_mem_rss_mb, and the records of the later ticks
\* have no per-device process memory either.
C18_EndedFlaggedOnce ==
    /\ flagged <= 1
    /\ pc \in {"emit", "poll"} =>
          /\ HasKey(row, "proc_ended") => ended
          /\ ended => KeySet(row) \cap ProcKeys = {}
          /\ (ended /\ ~HasKey(row, "proc_ended")) => GpuProcKeys(row) = {}
          /\ (pc = "poll" /\ HasKey(row, "proc_ended")) => flagged = 1

C18_Witness ==
    /\ flagged = 1
    /\ ended
    /\ pc = "poll"
    /\ out_count = 3
    /\ ~HasKey(row, "proc_ended")
    /\ HasKey(row, "gpu0_power_w")
    /\ proc_state = "alive"

\* the keys of a record that are not columns of the header
LateKeys(d) == KeySet(d) \ {keys_order[i] : i \in 1..Len(keys_order)}

\* C19: in csv mode a key that the first record lacked and a later record
\* has is never written: the header stays the one of the first record, and
\* a data line has one field per header column, as many non-empty fields as
\* the record has header keys, each the value of its column.
C19_LateKeysNeverWritten ==
    (args.format = "csv" /\ pc = "poll") =>
        LET fields == Split(line)
            filled == {i \in 1..Len(fields) : fields[i] # EmptyStr}
        IN  /\ out_header[1].text = csv_header(keys_order, csv_writer)
            /\ Len(fields) = Len(keys_order)
            /\ Cardinality(filled) = Cardinality(KeySet(row) \ LateKeys(row))
            /\ \A i \in filled : /\ HasKey(row, keys_order[i])
                                   /\ fields[i] = Str(Get(row, keys_order[i]))

C19_Witness ==
    /\ args.format = "csv"
    /\ pc = "poll"
    /\ out_count >= 2
    /\ "proc_ended" \in LateKeys(row)
    /\ \E k \in LateKeys(row) : k # "proc_ended"

\* C20 (as stated): every accessible domain is primed once before the
\* first tick, and a domain whose priming read and first-tick read both
\* succeeded, with the clock strictly later at the first tick than at
\* priming, has its power key in the first record.
C20_FirstRecordHasPower ==
    (pc = "emit" /\ ticks = 1) =>
        /\ Len(primed) = Len(rapl_domains)
        /\ \A i \in 1..Len(rapl_domains) :
              (primed[i].ok /\ answers.rapl[i] /\ primed[i].at < ts)
              => HasKey(row, RaplKey(rapl_domains[i]))

====
